---- MODULE Spec2Model ----
(***************************************************************************)
(* State-machine model of src/src/print.ts: the printer directory          *)
(* (getAllPrinters), the image submitter (printImage, printToUSB) and the  *)
(* background poller (watchAndResumePrinters).                             *)
(*                                                                         *)
(* Text is modelled as a sequence of symbols.  A symbol is a TLA+ string   *)
(* standing for a run of characters that the regular expressions of the    *)
(* code never split ("printer", "usb", "://" ...) or for a single          *)
(* character of a printer name ("a", "b", "c").  The JavaScript string     *)
(* operations (split, includes, toLowerCase, match) are computed on these  *)
(* sequences the way the code computes them on characters.                 *)
(***************************************************************************)
EXTENDS Integers, Sequences, FiniteSets, TLC

\* ------------------------------------------------------------------ bounds
MaxPrinters == 2
MaxTicks == 2
MaxAckLen == 6
MaxCopies == 3
MaxPresses == 2

\* ------------------------------------------------------- string primitives
NL == "\n"
SP == " "
Empty == << >>

MinOf(S) == CHOOSE x \in S : \A y \in S : x <= y

\* String.prototype.includes
Includes(s, t) ==
  \E i \in 1..(Len(s) - Len(t) + 1) : SubSeq(s, i, i + Len(t) - 1) = t

\* String.prototype.split on a one-symbol separator
RECURSIVE Split(_, _)
Split(s, sep) ==
  IF \A i \in 1..Len(s) : s[i] # sep
  THEN << s >>
  ELSE LET i == MinOf({k \in 1..Len(s) : s[k] = sep})
       IN  << SubSeq(s, 1, i - 1) >> \o Split(SubSeq(s, i + 1, Len(s)), sep)

LowerSym(c) ==
  CASE c = "USB" -> "usb"
    [] c = "Paused" -> "paused"
    [] c = "PNG" -> "png"
    [] c = "TXT" -> "txt"
    [] OTHER -> c

\* String.prototype.toLowerCase
ToLowerCase(s) == [i \in 1..Len(s) |-> LowerSym(s[i])]

\* String.prototype.trim
RECURSIVE Trim(_)
Trim(s) ==
  IF s = Empty THEN s
  ELSE IF Head(s) \in {SP, NL, "\t"} THEN Trim(Tail(s))
  ELSE IF s[Len(s)] \in {SP, NL, "\t"} THEN Trim(SubSeq(s, 1, Len(s) - 1))
  ELSE s

NoMatch == [matched |-> FALSE, g1 |-> Empty, g2 |-> Empty]

\* /system default destination: (.+)/ on the whole report ("." stops at "\n")
DefaultMatch(text) ==
  LET starts == {i \in 1..(Len(text) - 2) :
                   /\ text[i] = "system default destination:"
                   /\ text[i + 1] = SP
                   /\ text[i + 2] # NL}
  IN  IF starts = {} THEN NoMatch
      ELSE LET i == MinOf(starts)
               stops == {j \in (i + 2)..Len(text) : text[j] = NL}
               e == IF stops = {} THEN Len(text) ELSE MinOf(stops) - 1
           IN  [matched |-> TRUE, g1 |-> SubSeq(text, i + 2, e), g2 |-> Empty]

\* /printer (.+?) (.*)/ on one line: leftmost "printer ", then the shortest
\* non-empty name that is followed by a space, then the rest of the line
PrinterMatch(line) ==
  LET ends(i) == {j \in (i + 3)..Len(line) : line[j] = SP}
      starts == {i \in 1..(Len(line) - 3) :
                   /\ line[i] = "printer"
                   /\ line[i + 1] = SP
                   /\ ends(i) # {}}
  IN  IF starts = {} THEN NoMatch
      ELSE LET i == MinOf(starts)
               j == MinOf(ends(i))
           IN  [matched |-> TRUE,
                g1 |-> SubSeq(line, i + 2, j - 1),
                g2 |-> SubSeq(line, j + 1, Len(line))]

\* /device for (.+?): (.+)/ on one line
DeviceMatch(line) ==
  LET ends(i) == {j \in (i + 3)..(Len(line) - 2) :
                    line[j] = ":" /\ line[j + 1] = SP}
      starts == {i \in 1..(Len(line) - 5) :
                   /\ line[i] = "device for"
                   /\ line[i + 1] = SP
                   /\ ends(i) # {}}
  IN  IF starts = {} THEN NoMatch
      ELSE LET i == MinOf(starts)
               j == MinOf(ends(i))
           IN  [matched |-> TRUE,
                g1 |-> SubSeq(line, i + 2, j - 1),
                g2 |-> SubSeq(line, j + 2, Len(line))]

\* -------------------------------------------------------- getAllPrinters
\* isDefault: printerName === defaultPrinter
IsDefaultPrinterLoose(printerName, defaultPrinter) ==
  Includes(defaultPrinter, printerName)

IsDefaultPrinter(printerName, defaultPrinter) == printerName = defaultPrinter

\* deviceLines.find((d) => d.includes(printerName)); Empty when none is found
FindDeviceLine(deviceLines, printerName) ==
  LET hits == {k \in 1..Len(deviceLines) : Includes(deviceLines[k], printerName)}
  IN  IF hits = {} THEN Empty ELSE deviceLines[MinOf(hits)]

\* the body of the loop over the lines of "lpstat -p -d" that match
ParsePrinter(line, deviceLines, defaultPrinter) ==
  LET m == PrinterMatch(line)
      printerName == m.g1
      status == IF m.g2 = Empty THEN << "unknown" >> ELSE m.g2
      deviceLine == FindDeviceLine(deviceLines, printerName)
      uriMatch == IF deviceLine = Empty THEN NoMatch ELSE DeviceMatch(deviceLine)
      uri == IF uriMatch.matched THEN uriMatch.g2 ELSE Empty
  IN  [name |-> printerName,
       uri |-> uri,
       status |-> status,
       isDefault |-> IsDefaultPrinter(printerName, defaultPrinter),
       isUSB |-> uriMatch.matched /\ Includes(ToLowerCase(uri), << "usb" >>)]

\* the records getAllPrinters returns for the two reports
GetAllPrinters(printerList, printerDevices) ==
  LET lines == Split(printerList, NL)
      deviceLines == Split(printerDevices, NL)
      defaultMatch == DefaultMatch(printerList)
      defaultPrinter == IF defaultMatch.matched THEN defaultMatch.g1 ELSE Empty
      hits == SelectSeq(lines, LAMBDA l : PrinterMatch(l).matched)
  IN  [k \in 1..Len(hits) |-> ParsePrinter(hits[k], deviceLines, defaultPrinter)]

\* ------------------------------------------- the print subsystem (CUPS)
\* Printer names as CUPS registers them; "a" is a substring of "ab".
Names == { << "a" >>, << "a", "b" >>, << "c" >> }
UsbUri == << "usb", "://", "x" >>
IppUri == << "ipp", "://", "x" >>
Uris == { UsbUri, IppUri }
PrinterRecs == [name : Names, uri : Uris, enabled : BOOLEAN]

\* the queues CUPS can hold: at most MaxPrinters printers, names unique
CupsStates ==
  {s \in UNION {[1..n -> PrinterRecs] : n \in 0..MaxPrinters} :
     \A i, j \in 1..Len(s) : i # j => s[i].name # s[j].name}

CupsNames(cs) == {cs[i].name : i \in 1..Len(cs)}

\* one printer's lines in the output of "lpstat -p"
StatusLines(p) ==
  << "printer", SP >> \o p.name \o << SP >> \o
  (IF p.enabled
     THEN << "is", SP, "idle.", NL >>
     ELSE << "disabled", SP, "since", SP, "-", NL, "\t", "Paused", NL >>)

RECURSIVE AllStatusLines(_)
AllStatusLines(cs) ==
  IF cs = << >> THEN Empty ELSE StatusLines(Head(cs)) \o AllStatusLines(Tail(cs))

\* stdout of "lpstat -p -d"
LpstatPD(cs, d) ==
  AllStatusLines(cs) \o
  (IF d = Empty
     THEN << "no system default destination", NL >>
     ELSE << "system default destination:", SP >> \o d \o << NL >>)

RECURSIVE LpstatV(_)
\* stdout of "lpstat -v"
LpstatV(cs) ==
  IF cs = << >> THEN Empty
  ELSE << "device for", SP >> \o Head(cs).name \o << ":", SP >> \o Head(cs).uri
         \o << NL >> \o LpstatV(Tail(cs))

\* stdout of lpstat -p "<printerName>"
LpstatP(cs, printerName) ==
  LET hits == {i \in 1..Len(cs) : cs[i].name = printerName}
  IN  IF hits = {} THEN Empty ELSE StatusLines(cs[MinOf(hits)])

\* acknowledgements the lp command can print
LpAcks(printerName) ==
  { << "request id is", SP >> \o printerName \o << "-", "42", SP, "(1 file(s))", NL >>,
    << "queued", NL >> }

\* ------------------------------------------------------- image submitter
\* errors: the chain of message prefixes, outermost first, and the cause's text
Err(chain, val) == [status |-> "error", chain |-> chain, val |-> val]
Ok(val) == [status |-> "ok", chain |-> << >>, val |-> val]
NoResult == [status |-> "none", chain |-> << >>, val |-> Empty]

\* an error passed on without the prefix
WrapNone(prefix, e) == e

\* `Failed to <action>: ${error.message}`
Wrap(prefix, e) == [e EXCEPT !.chain = << prefix >> \o @]

\* path.extname: from the last "." of the base name, "" when there is none
\* or when the base name starts with it
ExtName(filePath) ==
  LET dots == {i \in 2..Len(filePath) : filePath[i] = "."}
  IN  IF dots = {} THEN Empty
      ELSE SubSeq(filePath, CHOOSE i \in dots : \A j \in dots : j <= i, Len(filePath))

supportedFormats ==
  { << ".", "png" >>, << ".", "jpg" >>, << ".", "jpeg" >>, << ".", "gif" >>,
    << ".", "pdf" >>, << ".", "tiff" >>, << ".", "tif" >> }

\* what fs.promises.access(filePath, R_OK) can answer
FsStates == { "readable", "ENOENT", "EACCES" }

\* validateImageFile without the extension test
ValidateImageFileNoExt(filePath, fsState) ==
  IF fsState = "ENOENT" THEN Err(<< "File not found" >>, filePath)
  ELSE IF fsState = "EACCES" THEN Err(<< "EACCES: permission denied" >>, filePath)
  ELSE Ok(Empty)

ValidateImageFile(filePath, fsState) ==
  IF fsState = "ENOENT" THEN Err(<< "File not found" >>, filePath)
  ELSE IF fsState = "EACCES" THEN Err(<< "EACCES: permission denied" >>, filePath)
  ELSE IF ToLowerCase(ExtName(filePath)) \notin supportedFormats
    THEN Err(<< "Unsupported file format" >>, ToLowerCase(ExtName(filePath)))
  ELSE Ok(Empty)

\* args.join(" ")
RECURSIVE Join(_)
Join(args) ==
  IF Len(args) = 0 THEN Empty
  ELSE IF Len(args) = 1 THEN args[1]
  ELSE args[1] \o << SP >> \o Join(Tail(args))

RECURSIVE CupArgs(_)
\* one "-o key=value" pair per entry of cupOptions, in iteration order
CupArgs(pairs) ==
  IF pairs = << >> THEN << >>
  ELSE << << "-o" >>, << pairs[1][1], "=", pairs[1][2] >> >> \o CupArgs(Tail(pairs))

Quoted(s) == << "\"" >> \o s \o << "\"" >>

\* unset options: copies 0 (undefined), media Empty, cupOptions << >>
DefaultOptions ==
  [copies |-> 0, media |-> Empty, grayscale |-> FALSE, fitToPage |-> FALSE,
   cupOptions |-> << >>]
FullOptions ==
  [copies |-> 2, media |-> << "4x6" >>, grayscale |-> TRUE, fitToPage |-> TRUE,
   cupOptions |-> << << "print-quality", "5" >> >>]
OptionValues == { DefaultOptions, FullOptions }

\* buildPrintCommand passing on every copies value that is set
buildPrintCommandAnyCopies(printerName, imagePath, options) ==
  Join(<< << "lp" >>, << "-d" >>, Quoted(printerName) >>
       \o (IF options.copies > 0
             THEN << << "-n" >>, << ToString(options.copies) >> >> ELSE << >>)
       \o (IF options.media # Empty
             THEN << << "-o" >>, << "media=" >> \o options.media >> ELSE << >>)
       \o (IF options.grayscale THEN << << "-o" >>, << "ColorModel=Gray" >> >> ELSE << >>)
       \o (IF options.fitToPage THEN << << "-o" >>, << "fit-to-page" >> >> ELSE << >>)
       \o CupArgs(options.cupOptions)
       \o << Quoted(imagePath) >>)

buildPrintCommand(printerName, imagePath, options) ==
  Join(<< << "lp" >>, << "-d" >>, Quoted(printerName) >>
       \o (IF options.copies > 1
             THEN << << "-n" >>, << ToString(options.copies) >> >> ELSE << >>)
       \o (IF options.media # Empty
             THEN << << "-o" >>, << "media=" >> \o options.media >> ELSE << >>)
       \o (IF options.grayscale THEN << << "-o" >>, << "ColorModel=Gray" >> >> ELSE << >>)
       \o (IF options.fitToPage THEN << << "-o" >>, << "fit-to-page" >> >> ELSE << >>)
       \o CupArgs(options.cupOptions)
       \o << Quoted(imagePath) >>)

\* the symbols that stand for digits
Digits == { "42", "4" }

\* /request id is .+-(\d+)/: the leftmost "request id is " that has a match;
\* ".+" is greedy and stays on the line, so the last "-<digits>" after it, and
\* all the digits that follow
JobMatch(stdout) ==
  LET ends(i) == {j \in (i + 3)..(Len(stdout) - 1) :
                    /\ stdout[j] = "-"
                    /\ stdout[j + 1] \in Digits
                    /\ \A k \in (i + 2)..(j - 1) : stdout[k] # NL}
      starts == {i \in 1..(Len(stdout) - 4) :
                   /\ stdout[i] = "request id is"
                   /\ stdout[i + 1] = SP
                   /\ ends(i) # {}}
  IN  IF starts = {} THEN NoMatch
      ELSE LET i == MinOf(starts)
               j == CHOOSE h \in ends(i) : \A g \in ends(i) : g <= h
               e == CHOOSE h \in (j + 1)..Len(stdout) :
                      /\ \A k \in (j + 1)..h : stdout[k] \in Digits
                      /\ h = Len(stdout) \/ stdout[h + 1] \notin Digits
           IN  [matched |-> TRUE, g1 |-> SubSeq(stdout, j + 1, e), g2 |-> Empty]

\* the job id without the pattern
ExtractJobIdRaw(stdout) == Trim(stdout)

\* jobMatch ? jobMatch[1] : stdout.trim()
ExtractJobId(stdout) ==
  IF JobMatch(stdout).matched THEN JobMatch(stdout).g1 ELSE Trim(stdout)

\* printers.find((p) => p.name === printerName) found something
PrinterListedAny(printers, printerName) == Len(printers) > 0

PrinterListed(printers, printerName) ==
  \E i \in 1..Len(printers) : printers[i].name = printerName

\* printToUSB's choice with the default ignored
SelectPrinterFirst(allPrinters) == allPrinters[1]

\* allPrinters.find((p) => p.isDefault) || allPrinters[0]
SelectPrinter(allPrinters) ==
  LET defaults == {i \in 1..Len(allPrinters) : allPrinters[i].isDefault}
  IN  IF defaults # {} THEN allPrinters[MinOf(defaults)] ELSE allPrinters[1]

\* ------------------------------------------------------------------ state
VARIABLES
  cups,        \* the printers CUPS holds, in listing order
  dflt,        \* the system default destination, Empty when there is none
  pc,          \* where the exported call in progress is suspended
  call,        \* its arguments, locals and result
  tempExists,  \* whether the file at the call's tempFilePath exists
  cmds,        \* the subsystem commands the call has issued, in order
  isRunning,   \* watchAndResumePrinters: the captured flag
  timers,      \* watchAndResumePrinters: pending setTimeout(check) timers
  ticks,       \* watchAndResumePrinters: the runs of check, oldest first
  wopts,       \* watchAndResumePrinters: the options it was started with
  nchecks,     \* how many times check has been entered
  mediaRecorder, \* client.ts: the recorder the variable points at, 0 for null
  recorders,   \* client.ts: the MediaRecorder objects the page has created
  grants,      \* client.ts: the getUserMedia requests not yet answered
  held,        \* client.ts: whether the record button is held down
  over,        \* client.ts: whether the pointer is over the record button
  presses      \* client.ts: how often the button has been pressed

envVars == << cups, dflt >>
callVars == << pc, call, tempExists, cmds >>
watchVars == << isRunning, timers, ticks, wopts, nchecks >>
clientVars == << mediaRecorder, recorders, grants, held, over, presses >>
vars ==
  << cups, dflt, pc, call, tempExists, cmds, isRunning, timers, ticks, wopts, nchecks,
     mediaRecorder, recorders, grants, held, over, presses >>

TempPath == << "tmp/print-temp-1-x", ".", "png" >>
Paths == { << "f", ".", "png" >>, << "f", ".", "PNG" >>, << "f", ".", "txt" >> }
BufferInput == [kind |-> "buffer", path |-> Empty]
Inputs == { BufferInput } \cup { [kind |-> "path", path |-> p] : p \in Paths }

LpstatPDCmd == << "lpstat", SP, "-p", SP, "-d" >>
LpstatVCmd == << "lpstat", SP, "-v" >>

NoCall ==
  [op |-> "none", phase |-> "none", printerName |-> Empty,
   input |-> [kind |-> "none", path |-> Empty], options |-> DefaultOptions,
   tempFilePath |-> Empty, imagePath |-> Empty, fs |-> "none",
   printerList |-> Empty, snapCups |-> << >>, snapDflt |-> Empty,
   allPrinters |-> << >>, selListed |-> FALSE,
   printers |-> << >>, listed |-> FALSE,
   unlink |-> "none", result |-> NoResult,
   autoEnable |-> FALSE, wasEnabled |-> "none", jobId |-> Empty, stdout |-> Empty]

NoWatch ==
  [started |-> FALSE, printerNames |-> << >>, onResume |-> FALSE, onError |-> FALSE]

\* the finally block of printImage, run on the success path only
FinallyOnSuccess(c) ==
  IF c.tempFilePath # Empty /\ c.result.status = "ok" THEN "unlink" ELSE "done"

\* the finally block of printImage: unlink when a temporary file was created
Finally(c) == IF c.tempFilePath # Empty THEN "unlink" ELSE "done"

\* printImage up to its first await
PrintImageEntry(c) ==
  IF c.input.kind = "buffer"
    THEN [c EXCEPT !.phase = "print", !.tempFilePath = TempPath]
    ELSE [c EXCEPT !.phase = "print"]

PrintImageEntryPc(c) == IF c.input.kind = "buffer" THEN "writeFile" ELSE "access"

CallPrintImage(printerName, input, options) ==
  /\ pc = "idle"
  /\ call' = PrintImageEntry([NoCall EXCEPT !.op = "printImage",
                                            !.printerName = printerName,
                                            !.input = input,
                                            !.options = options])
  /\ pc' = PrintImageEntryPc(call')
  /\ UNCHANGED << tempExists, cmds, envVars, watchVars, clientVars >>

CallPrintToUSB(input, options) ==
  /\ pc = "idle"
  /\ call' = [NoCall EXCEPT !.op = "printToUSB", !.phase = "select",
                            !.input = input, !.options = options]
  /\ cmds' = Append(cmds, LpstatPDCmd)
  /\ pc' = "lpstat_pd"
  /\ UNCHANGED << tempExists, envVars, watchVars, clientVars >>

\* fs.promises.writeFile(tempFilePath, buffer) settles
WriteFileDone(ok, partial) ==
  /\ pc = "writeFile"
  /\ IF ok
       THEN /\ tempExists' = TRUE
            /\ call' = [call EXCEPT !.imagePath = call.tempFilePath]
            /\ cmds' = Append(cmds, LpstatPDCmd)
            /\ pc' = "lpstat_pd"
       ELSE /\ tempExists' = partial
            /\ call' = [call EXCEPT !.result =
                          Wrap("Failed to print", Err(<< "ENOSPC: write failed" >>, Empty))]
            /\ pc' = Finally(call')
            /\ UNCHANGED cmds
  /\ UNCHANGED << envVars, watchVars, clientVars >>

\* validateImageFile(imagePathOrBuffer) settles
AccessDone(fs) ==
  /\ pc = "access"
  /\ LET v == ValidateImageFile(call.input.path, fs)
     IN  IF v.status = "ok"
           THEN /\ call' = [call EXCEPT !.fs = fs, !.imagePath = call.input.path]
                /\ cmds' = Append(cmds, LpstatPDCmd)
                /\ pc' = "lpstat_pd"
           ELSE /\ call' = [call EXCEPT !.fs = fs,
                                        !.result = Wrap("Failed to print", v)]
                /\ pc' = Finally(call')
                /\ UNCHANGED cmds
  /\ UNCHANGED << tempExists, envVars, watchVars, clientVars >>

\* a direct call of getAllPrinters
CallGetAllPrinters ==
  /\ pc = "idle"
  /\ call' = [NoCall EXCEPT !.op = "getAllPrinters", !.phase = "dir"]
  /\ cmds' = Append(cmds, LpstatPDCmd)
  /\ pc' = "lpstat_pd"
  /\ UNCHANGED << tempExists, envVars, watchVars, clientVars >>

\* getAllPrinters returning what it has parsed when a command fails
ListingFailedPartial ==
  /\ call' = [call EXCEPT !.printers = GetAllPrinters(call.printerList, Empty),
                          !.listed = TRUE, !.result = Ok(Empty)]
  /\ pc' = "done"
  /\ UNCHANGED cmds

\* getAllPrinters throws: unwrapped out of printToUSB, wrapped by printImage
ListingFailed ==
  LET e == Wrap("Failed to get printers", Err(<< "Command failed: lpstat" >>, Empty))
  IN  /\ IF call.phase \in { "select", "dir" }
           THEN /\ call' = [call EXCEPT !.result = e]
                /\ pc' = "done"
           ELSE /\ call' = [call EXCEPT !.result = Wrap("Failed to print", e)]
                /\ pc' = Finally(call')
      /\ UNCHANGED cmds

\* execAsync("lpstat -p -d") settles
LpstatPDDone(ok) ==
  /\ pc = "lpstat_pd"
  /\ IF ok
       THEN /\ call' = [call EXCEPT !.printerList = LpstatPD(cups, dflt),
                                    !.snapCups = cups, !.snapDflt = dflt]
            /\ cmds' = Append(cmds, LpstatVCmd)
            /\ pc' = "lpstat_v"
       ELSE ListingFailed
  /\ UNCHANGED << tempExists, envVars, watchVars, clientVars >>

\* execAsync("lpstat -v") settles; the caller goes on to its next await
LpstatVDone(ok) ==
  /\ pc = "lpstat_v"
  /\ IF ~ok THEN ListingFailed
     ELSE LET printers == GetAllPrinters(call.printerList, LpstatV(cups))
          IN  IF call.phase = "dir"
                THEN /\ call' = [call EXCEPT !.printers = printers, !.listed = TRUE,
                                             !.result = Ok(Empty)]
                     /\ pc' = "done"
                     /\ UNCHANGED cmds
              ELSE IF call.phase = "select"
                THEN /\ IF Len(printers) = 0
                          THEN /\ call' = [call EXCEPT !.allPrinters = printers,
                                                       !.selListed = TRUE,
                                                       !.result = Err(<< "No printers found" >>, Empty)]
                               /\ pc' = "done"
                          ELSE /\ call' = PrintImageEntry(
                                     [call EXCEPT !.allPrinters = printers,
                                                  !.selListed = TRUE,
                                                  !.printerName = SelectPrinter(printers).name])
                               /\ pc' = PrintImageEntryPc(call')
                     /\ UNCHANGED cmds
                ELSE IF ~PrinterListed(printers, call.printerName)
                  THEN /\ call' = [call EXCEPT !.printers = printers, !.listed = TRUE,
                                     !.result = Wrap("Failed to print",
                                        Err(<< "Printer not found" >>, call.printerName))]
                       /\ pc' = Finally(call')
                       /\ UNCHANGED cmds
                  ELSE /\ call' = [call EXCEPT !.printers = printers, !.listed = TRUE]
                       /\ cmds' = Append(cmds, buildPrintCommand(call.printerName,
                                                 call.imagePath, call.options))
                       /\ pc' = "lp"
  /\ UNCHANGED << tempExists, envVars, watchVars, clientVars >>

\* execAsync(command) of the lp command settles
LpDone(ok, stdout) ==
  /\ pc = "lp"
  /\ call' = IF ok THEN [call EXCEPT !.stdout = stdout,
                                     !.result = Ok(ExtractJobId(stdout))]
              ELSE [call EXCEPT !.result =
                      Wrap("Failed to print", Err(<< "Command failed: lp" >>, Empty))]
  /\ pc' = Finally(call')
  /\ UNCHANGED << tempExists, cmds, envVars, watchVars, clientVars >>

\* fs.promises.unlink(tempFilePath) settles; a failure is only logged
UnlinkDone(ok) ==
  /\ pc = "unlink"
  /\ ok => tempExists
  /\ tempExists' = IF ok THEN FALSE ELSE tempExists
  /\ call' = [call EXCEPT !.unlink = IF ok THEN "ok" ELSE "failed"]
  /\ pc' = "done"
  /\ UNCHANGED << cmds, envVars, watchVars, clientVars >>

\* the promise has settled; the next call uses a fresh temporary path
Return ==
  /\ pc = "done"
  /\ pc' = "idle"
  /\ call' = NoCall
  /\ cmds' = << >>
  /\ tempExists' = FALSE
  /\ UNCHANGED << envVars, watchVars, clientVars >>

\* a printer is removed from CUPS behind the program's back while a call is in
\* flight (between calls, Init already ranges over every state of CUPS)
RemovePrinter(i) ==
  /\ pc \notin { "idle", "done" }
  /\ i \in 1..Len(cups)
  /\ cups' = SubSeq(cups, 1, i - 1) \o SubSeq(cups, i + 1, Len(cups))
  /\ dflt' = IF dflt = cups[i].name THEN Empty ELSE dflt
  /\ UNCHANGED << callVars, watchVars, clientVars >>

\* the page of client.ts as loaded: no recorder, the button untouched
NoClient ==
  /\ mediaRecorder = 0
  /\ recorders = << >>
  /\ grants = << >>
  /\ held = FALSE
  /\ over = FALSE
  /\ presses = 0

\* no watcher runs beside the calls
NoWatcher ==
  /\ isRunning = FALSE
  /\ timers = 0
  /\ ticks = << >>
  /\ wopts = NoWatch
  /\ nchecks = 0

NoCallYet ==
  /\ pc = "idle"
  /\ call = NoCall
  /\ tempExists = FALSE
  /\ cmds = << >>

\* printImage and printToUSB: the status text of a printer plays no part, so
\* every printer starts enabled
Init ==
  /\ cups \in {cs \in CupsStates : \A i \in 1..Len(cs) : cs[i].enabled}
  /\ dflt \in Names \cup { Empty }
  /\ NoCallYet
  /\ NoWatcher
  /\ NoClient

Next ==
  \/ \E n \in Names, i \in Inputs, o \in OptionValues : CallPrintImage(n, i, o)
  \/ \E i \in Inputs, o \in OptionValues : CallPrintToUSB(i, o)
  \/ \E ok, partial \in BOOLEAN : WriteFileDone(ok, partial)
  \/ \E fs \in FsStates : AccessDone(fs)
  \/ \E ok \in BOOLEAN : LpstatPDDone(ok)
  \/ \E ok \in BOOLEAN : LpstatVDone(ok)
  \/ \E ok \in BOOLEAN : \E out \in LpAcks(call.printerName) : LpDone(ok, out)
  \/ \E ok \in BOOLEAN : UnlinkDone(ok)
  \/ Return
  \/ \E i \in 1..MaxPrinters : RemovePrinter(i)

Spec == Init /\ [][Next]_vars

\* getAllPrinters alone, on every pair of reports CUPS can print
InitDir ==
  /\ cups \in CupsStates
  /\ dflt \in Names \cup { Empty }
  /\ NoCallYet
  /\ NoWatcher
  /\ NoClient

NextDir ==
  \/ CallGetAllPrinters
  \/ \E ok \in BOOLEAN : LpstatPDDone(ok)
  \/ \E ok \in BOOLEAN : LpstatVDone(ok)
  \/ Return
  \/ \E i \in 1..MaxPrinters : RemovePrinter(i)

SpecDir == InitDir /\ [][NextDir]_vars

\* --------------------------------------------------- watchAndResumePrinters
\* isPrinterEnabled's reading of the stdout of lpstat -p "<printerName>"
IsEnabledText(stdout) ==
  ~ (\/ Includes(ToLowerCase(stdout), << "disabled" >>)
     \/ Includes(ToLowerCase(stdout), << "paused" >>))

\* the poller's choice of printers with the allow-list ignored
PrintersToCheckAll(allPrinters, printerNames) == allPrinters

\* printerNames given and non-empty: allPrinters.filter(p => printerNames.includes(p.name))
PrintersToCheck(allPrinters, printerNames) ==
  IF Len(printerNames) > 0
    THEN SelectSeq(allPrinters,
                   LAMBDA p : \E k \in 1..Len(printerNames) : printerNames[k] = p.name)
    ELSE allPrinters

\* check with its first line, "if (!isRunning) return", left out
CheckGuardNone(running) == TRUE

\* if (!isRunning) return;
CheckGuard(running) == running

\* the next check scheduled when a check starts instead of when it has finished
NextCheckDueAtStart(pcBefore, pcAfter) == pcBefore = "start"

\* setTimeout(check, interval) is reached after the try/catch of check
NextCheckDue(pcBefore, pcAfter) == pcAfter = "end"

\* what a run of check records: the commands it issues, the callbacks it
\* invokes, the timer it sets; run is the value of isRunning at that moment
Ev(e, p) == [e |-> e, p |-> p, run |-> isRunning]

AllowLists == { << >>, << << "a" >> >>, << << "a", "b" >>, << "c" >> >> }
WatchOptions ==
  [started : { TRUE }, printerNames : AllowLists, onResume : BOOLEAN, onError : BOOLEAN]

\* check() is entered: it returns at once when stopped, else it awaits the
\* first command of getAllPrinters
FirstStep(running) ==
  IF CheckGuard(running)
    THEN [pc |-> "lpstat_pd", born |-> running, list |-> << >>, idx |-> 0,
          printerList |-> Empty, failed |-> FALSE,
          log |-> << [e |-> "lpstat_pd", p |-> Empty, run |-> running] >>]
    ELSE [pc |-> "done", born |-> running, list |-> << >>, idx |-> 0,
          printerList |-> Empty, failed |-> FALSE, log |-> << >>]

\* the loop head: await isPrinterEnabled(printer.name) of the next printer, or
\* the end of the try block
NextPrinter(tk, idx) ==
  IF idx > Len(tk.list)
    THEN [tk EXCEPT !.idx = idx, !.pc = "end"]
    ELSE [tk EXCEPT !.idx = idx, !.pc = "check",
                    !.log = Append(@, Ev("check", tk.list[idx].name))]

\* a catch block inside the loop: the error is reported and the loop goes on
CaughtAndGoOn(tk, errThrows) ==
  LET told == IF wopts.onError
                THEN [tk EXCEPT !.failed = TRUE, !.log = Append(@, Ev("onError", Empty))]
                ELSE [tk EXCEPT !.failed = TRUE]
  IN  IF told.idx + 1 > Len(told.list)
        THEN [told EXCEPT !.idx = told.idx + 1, !.pc = "end"]
        ELSE [told EXCEPT !.idx = told.idx + 1, !.pc = "check",
                          !.log = Append(@, Ev("check", told.list[told.idx + 1].name))]

\* the catch block: onError(error) when given; an onError that throws rejects
\* the promise of check before the next check is scheduled
Caught(tk, errThrows) ==
  IF wopts.onError
    THEN [tk EXCEPT !.failed = TRUE,
                    !.log = Append(@, Ev("onError", Empty)),
                    !.pc = IF errThrows THEN "rejected" ELSE "end"]
    ELSE [tk EXCEPT !.failed = TRUE, !.pc = "end"]

\* whether the step that took a run of check from pcBefore to tk sets the timer
Scheduled(tk, pcBefore, running) == running /\ NextCheckDue(pcBefore, tk.pc)

\* the run after that step: "if (isRunning) setTimeout(check, interval)"
Settle(tk, pcBefore, running) ==
  [tk EXCEPT !.pc = IF @ = "end" THEN "done" ELSE @,
             !.log = IF Scheduled(tk, pcBefore, running)
                       THEN Append(@, [e |-> "schedule", p |-> Empty, run |-> running])
                       ELSE @]

InFlight(tk) == tk.pc \notin { "done", "rejected" }

StepCommit(t, tk, pcBefore) ==
  /\ ticks' = [ticks EXCEPT ![t] = Settle(tk, pcBefore, isRunning)]
  /\ timers' = IF Scheduled(tk, pcBefore, isRunning) THEN timers + 1 ELSE timers

\* watchAndResumePrinters(options): sets the flag, calls check() and returns
\* the stop function
Watch(o) ==
  /\ ~ wopts.started
  /\ wopts' = o
  /\ isRunning' = TRUE
  /\ nchecks' = 1
  /\ ticks' = << Settle(FirstStep(TRUE), "start", TRUE) >>
  /\ timers' = IF Scheduled(FirstStep(TRUE), "start", TRUE) THEN 1 ELSE 0
  /\ UNCHANGED << envVars, callVars, clientVars >>

\* a timer set by setTimeout(check, interval) fires; runs of check that have
\* ended are forgotten
TimerFire ==
  /\ timers > 0
  /\ nchecks < MaxTicks
  /\ nchecks' = nchecks + 1
  /\ ticks' = Append(SelectSeq(ticks, InFlight),
                     Settle(FirstStep(isRunning), "start", isRunning))
  /\ timers' = IF Scheduled(FirstStep(isRunning), "start", isRunning)
                 THEN timers ELSE timers - 1
  /\ UNCHANGED << isRunning, wopts, envVars, callVars, clientVars >>

\* the returned stop function
Stop ==
  /\ wopts.started
  /\ isRunning
  /\ isRunning' = FALSE
  /\ UNCHANGED << timers, ticks, wopts, nchecks, envVars, callVars, clientVars >>

\* getAllPrinters inside check: execAsync("lpstat -p -d") settles
TickLpstatPD(t, ok, errThrows) ==
  /\ t \in 1..Len(ticks)
  /\ ticks[t].pc = "lpstat_pd"
  /\ StepCommit(t,
       IF ok THEN [ticks[t] EXCEPT !.printerList = LpstatPD(cups, dflt),
                                   !.pc = "lpstat_v",
                                   !.log = Append(@, Ev("lpstat_v", Empty))]
       ELSE Caught(ticks[t], errThrows),
       "lpstat_pd")
  /\ UNCHANGED << isRunning, wopts, nchecks, envVars, callVars, clientVars >>

\* getAllPrinters inside check: execAsync("lpstat -v") settles
TickLpstatV(t, ok, errThrows) ==
  /\ t \in 1..Len(ticks)
  /\ ticks[t].pc = "lpstat_v"
  /\ StepCommit(t,
       IF ok THEN NextPrinter(
                    [ticks[t] EXCEPT !.printerList = Empty,
                       !.list = PrintersToCheck(
                                  GetAllPrinters(ticks[t].printerList, LpstatV(cups)),
                                  wopts.printerNames)], 1)
       ELSE Caught(ticks[t], errThrows),
       "lpstat_v")
  /\ UNCHANGED << isRunning, wopts, nchecks, envVars, callVars, clientVars >>

\* isPrinterEnabled(printer.name) settles; a printer that reads as not enabled
\* is resumed: enablePrinter issues cupsenable
TickCheck(t, ok, errThrows) ==
  /\ t \in 1..Len(ticks)
  /\ ticks[t].pc = "check"
  /\ LET tk == ticks[t]
         name == tk.list[tk.idx].name
     IN  /\ ok => name \in CupsNames(cups)
         /\ StepCommit(t,
              IF ~ ok THEN Caught(tk, errThrows)
              ELSE IF IsEnabledText(LpstatP(cups, name)) THEN NextPrinter(tk, tk.idx + 1)
              ELSE [tk EXCEPT !.pc = "cupsenable",
                              !.log = @ \o << Ev("disabled", name), Ev("cupsenable", name) >>],
              "check")
  /\ UNCHANGED << isRunning, wopts, nchecks, envVars, callVars, clientVars >>

EnableIn(cs, name) ==
  [i \in 1..Len(cs) |-> IF cs[i].name = name THEN [cs[i] EXCEPT !.enabled = TRUE] ELSE cs[i]]

\* enablePrinter: execAsync(`cupsenable "${printerName}"`) settles, then
\* cupsaccept is issued
TickCupsenable(t, ok, errThrows) ==
  /\ t \in 1..Len(ticks)
  /\ ticks[t].pc = "cupsenable"
  /\ LET tk == ticks[t]
         name == tk.list[tk.idx].name
     IN  /\ cups' = IF ok THEN EnableIn(cups, name) ELSE cups
         /\ StepCommit(t,
              IF ok THEN [tk EXCEPT !.pc = "cupsaccept",
                                    !.log = Append(@, Ev("cupsaccept", name))]
              ELSE Caught(tk, errThrows),
              "cupsenable")
  /\ UNCHANGED << isRunning, wopts, nchecks, dflt, callVars, clientVars >>

\* enablePrinter: execAsync(`cupsaccept "${printerName}"`) settles; on success
\* enablePrinter returns ("resumed") and onResume(printer.name) is called when
\* given, and may throw
TickCupsaccept(t, ok, cbThrows, errThrows) ==
  /\ t \in 1..Len(ticks)
  /\ ticks[t].pc = "cupsaccept"
  /\ LET tk == ticks[t]
         name == tk.list[tk.idx].name
         resumed == [tk EXCEPT !.log = Append(@, Ev("resumed", name))]
         called == [resumed EXCEPT !.log = Append(@, Ev("onResume", name))]
     IN  StepCommit(t,
           IF ~ ok THEN Caught(tk, errThrows)
           ELSE IF ~ wopts.onResume THEN NextPrinter(resumed, tk.idx + 1)
           ELSE IF cbThrows THEN Caught(called, errThrows)
           ELSE NextPrinter(called, tk.idx + 1),
           "cupsaccept")
  /\ UNCHANGED << isRunning, wopts, nchecks, envVars, callVars, clientVars >>

\* CUPS pauses a printer (a job failed, an operator ran cupsdisable).  A run of
\* check reads a printer's state once, when its isPrinterEnabled settles, so a
\* pause during a run is seen as one before or one after it: pauses are taken
\* between runs
PausePrinter(i) ==
  /\ wopts.started
  /\ \A t \in 1..Len(ticks) : ~ InFlight(ticks[t])
  /\ i \in 1..Len(cups)
  /\ cups[i].enabled
  /\ cups' = [cups EXCEPT ![i].enabled = FALSE]
  /\ UNCHANGED << dflt, callVars, watchVars, clientVars >>

\* the poller: the transport of a printer plays no part, so every printer is
\* a USB printer and there is no default destination
InitWatch ==
  /\ cups \in {cs \in CupsStates : \A i \in 1..Len(cs) : cs[i].uri = UsbUri}
  /\ dflt = Empty
  /\ NoCallYet
  /\ NoWatcher
  /\ NoClient

NextWatch ==
  \/ \E o \in WatchOptions : Watch(o)
  \/ TimerFire
  \/ Stop
  \/ \E t \in 1..MaxTicks, ok, errThrows \in BOOLEAN : TickLpstatPD(t, ok, errThrows)
  \/ \E t \in 1..MaxTicks, ok, errThrows \in BOOLEAN : TickLpstatV(t, ok, errThrows)
  \/ \E t \in 1..MaxTicks, ok, errThrows \in BOOLEAN : TickCheck(t, ok, errThrows)
  \/ \E t \in 1..MaxTicks, ok, errThrows \in BOOLEAN : TickCupsenable(t, ok, errThrows)
  \/ \E t \in 1..MaxTicks, ok, cbThrows, errThrows \in BOOLEAN :
       TickCupsaccept(t, ok, cbThrows, errThrows)
  \/ \E i \in 1..MaxPrinters : PausePrinter(i)

SpecWatch == InitWatch /\ [][NextWatch]_vars

\* --------------------------------------------- status and queue operations
LpstatPCmd(printerName) == << "lpstat", SP, "-p", SP >> \o Quoted(printerName)
CupsenableCmd(printerName) == << "cupsenable", SP >> \o Quoted(printerName)
CupsacceptCmd(printerName) == << "cupsaccept", SP >> \o Quoted(printerName)

\* isPrinterEnabled(printerName) up to its await
CallIsPrinterEnabled(printerName) ==
  /\ pc = "idle"
  /\ call' = [NoCall EXCEPT !.op = "isPrinterEnabled", !.printerName = printerName]
  /\ cmds' = Append(cmds, LpstatPCmd(printerName))
  /\ pc' = "lpstat_p"
  /\ UNCHANGED << tempExists, envVars, watchVars, clientVars >>

\* checkAndResumePrinter(printerName, autoEnable) up to the await inside
\* isPrinterEnabled
CallCheckAndResumePrinter(printerName, autoEnable) ==
  /\ pc = "idle"
  /\ call' = [NoCall EXCEPT !.op = "checkAndResumePrinter",
                            !.printerName = printerName, !.autoEnable = autoEnable]
  /\ cmds' = Append(cmds, LpstatPCmd(printerName))
  /\ pc' = "lpstat_p"
  /\ UNCHANGED << tempExists, envVars, watchVars, clientVars >>

\* enablePrinter(printerName) up to its first await
CallEnablePrinter(printerName) ==
  /\ pc = "idle"
  /\ call' = [NoCall EXCEPT !.op = "enablePrinter", !.printerName = printerName,
                            !.snapCups = cups]
  /\ cmds' = Append(cmds, CupsenableCmd(printerName))
  /\ pc' = "cupsenable"
  /\ UNCHANGED << tempExists, envVars, watchVars, clientVars >>

ReadyMessage(printerName) == << "Printer", SP >> \o Quoted(printerName) \o << SP, "is ready" >>
PausedMessage(printerName) ==
  << "Printer", SP >> \o Quoted(printerName) \o << SP, "is paused/disabled" >>
EnabledMessage(printerName) ==
  << "Printer", SP >> \o Quoted(printerName)
    \o << SP, "has been enabled and is now accepting jobs" >>

\* checkAndResumePrinter resuming whatever autoEnable says
ShouldResumeAlways(isEnabled, autoEnable) == ~ isEnabled

\* checkAndResumePrinter: past "if (isEnabled) return", "if (autoEnable)"
ShouldResume(isEnabled, autoEnable) == ~ isEnabled /\ autoEnable

\* execAsync(`lpstat -p "${printerName}"`) settles; lpstat fails on a name CUPS
\* does not know.  checkAndResumePrinter goes on from the answer
LpstatPDone(ok) ==
  /\ pc = "lpstat_p"
  /\ ok => call.printerName \in CupsNames(cups)
  /\ LET isEnabled == IsEnabledText(LpstatP(cups, call.printerName))
         seen == [call EXCEPT !.snapCups = cups, !.stdout = LpstatP(cups, call.printerName)]
     IN  IF ~ ok
           THEN /\ call' = [call EXCEPT !.result =
                              Wrap("Failed to check printer status",
                                   Err(<< "Command failed: lpstat" >>, Empty))]
                /\ pc' = "done"
                /\ UNCHANGED cmds
         ELSE IF call.op = "isPrinterEnabled"
           THEN /\ call' = [seen EXCEPT !.result =
                              Ok(<< IF isEnabled THEN "true" ELSE "false" >>)]
                /\ pc' = "done"
                /\ UNCHANGED cmds
         ELSE IF isEnabled
           THEN /\ call' = [seen EXCEPT !.wasEnabled = "true",
                                        !.result = Ok(ReadyMessage(call.printerName))]
                /\ pc' = "done"
                /\ UNCHANGED cmds
         ELSE IF ShouldResume(isEnabled, call.autoEnable)
           THEN /\ call' = seen
                /\ cmds' = Append(cmds, CupsenableCmd(call.printerName))
                /\ pc' = "cupsenable"
         ELSE /\ call' = [seen EXCEPT !.wasEnabled = "false",
                                      !.result = Ok(PausedMessage(call.printerName))]
              /\ pc' = "done"
              /\ UNCHANGED cmds
  /\ UNCHANGED << tempExists, envVars, watchVars, clientVars >>

\* enablePrinter with its catch block reporting success
EnableIgnored(c, cause) == [c EXCEPT !.result = Ok(EnabledMessage(c.printerName))]

\* the catch block of enablePrinter
EnableFailed(c, cause) ==
  [c EXCEPT !.result = Wrap("Failed to enable printer", Err(<< cause >>, Empty))]

\* enablePrinter: execAsync(`cupsenable "${printerName}"`) settles; on success
\* cupsaccept is issued
CupsenableDone(ok) ==
  /\ pc = "cupsenable"
  /\ ok => call.printerName \in CupsNames(cups)
  /\ IF ok
       THEN /\ cups' = EnableIn(cups, call.printerName)
            /\ cmds' = Append(cmds, CupsacceptCmd(call.printerName))
            /\ pc' = "cupsaccept"
            /\ UNCHANGED call
       ELSE /\ call' = EnableFailed(call, "Command failed: cupsenable")
            /\ pc' = "done"
            /\ UNCHANGED << cups, cmds >>
  /\ UNCHANGED << tempExists, dflt, watchVars, clientVars >>

\* enablePrinter: execAsync(`cupsaccept "${printerName}"`) settles
CupsacceptDone(ok) ==
  /\ pc = "cupsaccept"
  /\ ok => call.printerName \in CupsNames(cups)
  /\ call' = IF ~ ok THEN EnableFailed(call, "Command failed: cupsaccept")
             ELSE IF call.op = "checkAndResumePrinter"
               THEN [call EXCEPT !.wasEnabled = "false",
                                 !.result = Ok(EnabledMessage(call.printerName)
                                               \o << SP, "(was paused/disabled)" >>)]
             ELSE [call EXCEPT !.result = Ok(EnabledMessage(call.printerName))]
  /\ pc' = "done"
  /\ UNCHANGED << tempExists, cmds, envVars, watchVars, clientVars >>

\* the three operations on every state of the queues
InitQueue ==
  /\ cups \in {cs \in CupsStates : \A i \in 1..Len(cs) : cs[i].uri = UsbUri}
  /\ dflt = Empty
  /\ NoCallYet
  /\ NoWatcher
  /\ NoClient

NextQueue ==
  \/ \E n \in Names : CallIsPrinterEnabled(n)
  \/ \E n \in Names, autoEnable \in BOOLEAN : CallCheckAndResumePrinter(n, autoEnable)
  \/ \E n \in Names : CallEnablePrinter(n)
  \/ \E ok \in BOOLEAN : LpstatPDone(ok)
  \/ \E ok \in BOOLEAN : CupsenableDone(ok)
  \/ \E ok \in BOOLEAN : CupsacceptDone(ok)
  \/ Return

SpecQueue == InitQueue /\ [][NextQueue]_vars

\* ------------------------------------------------- job and info operations
JobIds == { Empty, << "42" >> }
LpqCmd(jobId) == IF jobId = Empty THEN << "lpq" >> ELSE << "lpq", SP >> \o jobId
CancelCmd(jobId) == << "cancel", SP >> \o jobId
LpoptionsCmd(printerName) ==
  << "lpoptions", SP, "-p", SP >> \o Quoted(printerName) \o << SP, "-l" >>

\* what the commands can print: the queue, nothing, the options of a printer
LpqOutputs == { << "a", SP, "is ready", NL, "no entries", NL >> }
LpoptionsOutputs ==
  { << "PageSize/Media Size:", SP, "4x6", SP, "*A4", NL, "ColorModel/Color:", SP, "*Gray", NL >>,
    << "PageSize/Media Size:", SP, "*", SP, SP, "4x6", NL >>,
    << "ColorModel/Color:", SP, "*Gray", NL >> }
ExecOutputs(op) ==
  CASE op = "getPrintJobStatus" -> LpqOutputs
    [] op = "cancelPrintJob" -> { Empty }
    [] OTHER -> LpoptionsOutputs

\* /PageSize\/Media Size: (.+)/ on the whole text
MediaMatch(info) ==
  LET starts == {i \in 1..(Len(info) - 2) :
                   /\ info[i] = "PageSize/Media Size:"
                   /\ info[i + 1] = SP
                   /\ info[i + 2] # NL}
  IN  IF starts = {} THEN NoMatch
      ELSE LET i == MinOf(starts)
               stops == {j \in (i + 2)..Len(info) : info[j] = NL}
               e == IF stops = {} THEN Len(info) ELSE MinOf(stops) - 1
           IN  [matched |-> TRUE, g1 |-> SubSeq(info, i + 2, e), g2 |-> Empty]

\* mediaMatch[1].split(" ").filter((s) => s && s !== "*"), [] without a match
MediaSizes(info) ==
  IF MediaMatch(info).matched
    THEN SelectSeq(Split(MediaMatch(info).g1, SP),
                   LAMBDA sz : sz # Empty /\ sz # << "*" >>)
    ELSE << >>

CallGetPrintJobStatus(jobId) ==
  /\ pc = "idle"
  /\ call' = [NoCall EXCEPT !.op = "getPrintJobStatus", !.jobId = jobId]
  /\ cmds' = Append(cmds, LpqCmd(jobId))
  /\ pc' = "exec"
  /\ UNCHANGED << tempExists, envVars, watchVars, clientVars >>

CallCancelPrintJob(jobId) ==
  /\ pc = "idle"
  /\ call' = [NoCall EXCEPT !.op = "cancelPrintJob", !.jobId = jobId]
  /\ cmds' = Append(cmds, CancelCmd(jobId))
  /\ pc' = "exec"
  /\ UNCHANGED << tempExists, envVars, watchVars, clientVars >>

CallGetPrinterInfo(printerName) ==
  /\ pc = "idle"
  /\ call' = [NoCall EXCEPT !.op = "getPrinterInfo", !.printerName = printerName]
  /\ cmds' = Append(cmds, LpoptionsCmd(printerName))
  /\ pc' = "exec"
  /\ UNCHANGED << tempExists, envVars, watchVars, clientVars >>

\* getAvailableMediaSizes(printerName) up to the await inside getPrinterInfo
CallGetAvailableMediaSizes(printerName) ==
  /\ pc = "idle"
  /\ call' = [NoCall EXCEPT !.op = "getAvailableMediaSizes", !.printerName = printerName]
  /\ cmds' = Append(cmds, LpoptionsCmd(printerName))
  /\ pc' = "exec"
  /\ UNCHANGED << tempExists, envVars, watchVars, clientVars >>

\* the result of the operation once its one command has settled
ExecResult(op, ok, stdout) ==
  CASE op = "getPrintJobStatus" ->
         IF ok THEN Ok(stdout)
         ELSE Wrap("Failed to get job status", Err(<< "Command failed: lpq" >>, Empty))
    [] op = "cancelPrintJob" ->
         IF ok THEN Ok(Empty)
         ELSE Wrap("Failed to cancel job", Err(<< "Command failed: cancel" >>, Empty))
    [] op = "getPrinterInfo" ->
         IF ok THEN Ok(stdout)
         ELSE Wrap("Failed to get printer info",
                   Err(<< "Command failed: lpoptions" >>, Empty))
    [] op = "getAvailableMediaSizes" ->
         IF ok THEN Ok(MediaSizes(stdout))
         ELSE Wrap("Failed to get media sizes",
                   Wrap("Failed to get printer info",
                        Err(<< "Command failed: lpoptions" >>, Empty)))

\* execAsync of lpq, cancel or lpoptions settles
ExecDone(ok, stdout) ==
  /\ pc = "exec"
  /\ stdout \in ExecOutputs(call.op)
  /\ call' = [call EXCEPT !.stdout = IF ok THEN stdout ELSE Empty,
                          !.result = ExecResult(call.op, ok, stdout)]
  /\ pc' = "done"
  /\ UNCHANGED << tempExists, cmds, envVars, watchVars, clientVars >>

AllOutputs == LpqOutputs \cup LpoptionsOutputs \cup { Empty }

\* the exported operations side by side; options and the removal of printers
\* play no part in how a failure is reported
NextOps ==
  \/ \E n \in Names, i \in Inputs : CallPrintImage(n, i, DefaultOptions)
  \/ \E i \in Inputs : CallPrintToUSB(i, DefaultOptions)
  \/ \E ok, partial \in BOOLEAN : WriteFileDone(ok, partial)
  \/ \E fs \in FsStates : AccessDone(fs)
  \/ CallGetAllPrinters
  \/ \E ok \in BOOLEAN : LpstatPDDone(ok)
  \/ \E ok \in BOOLEAN : LpstatVDone(ok)
  \/ \E ok \in BOOLEAN : \E out \in LpAcks(call.printerName) : LpDone(ok, out)
  \/ \E ok \in BOOLEAN : UnlinkDone(ok)
  \/ \E n \in Names : CallIsPrinterEnabled(n)
  \/ \E n \in Names : CallEnablePrinter(n)
  \/ \E ok \in BOOLEAN : LpstatPDone(ok)
  \/ \E ok \in BOOLEAN : CupsenableDone(ok)
  \/ \E ok \in BOOLEAN : CupsacceptDone(ok)
  \/ \E j \in JobIds : CallGetPrintJobStatus(j)
  \/ \E j \in JobIds \ { Empty } : CallCancelPrintJob(j)
  \/ \E n \in Names : CallGetPrinterInfo(n)
  \/ \E n \in Names : CallGetAvailableMediaSizes(n)
  \/ \E ok \in BOOLEAN, out \in AllOutputs : ExecDone(ok, out)
  \/ Return

SpecOps == Init /\ [][NextOps]_vars

\* ------------------------------------------- the acknowledgement of lp
\* every text of at most MaxAckLen symbols lp could print
AckSymbols == { "request id is", SP, "a", "-", "4", NL }
AckTexts == UNION {[1..n -> AckSymbols] : n \in 0..MaxAckLen}

\* printImage on one printer and a readable file; only the acknowledgement varies
InitJob ==
  /\ cups = << [name |-> << "a" >>, uri |-> UsbUri, enabled |-> TRUE] >>
  /\ dflt = Empty
  /\ NoCallYet
  /\ NoWatcher
  /\ NoClient

NextJob ==
  \/ CallPrintImage(<< "a" >>, [kind |-> "path", path |-> << "f", ".", "png" >>],
                    DefaultOptions)
  \/ AccessDone("readable")
  \/ LpstatPDDone(TRUE)
  \/ LpstatVDone(TRUE)
  \/ pc = "lp" /\ \E out \in AckTexts : LpDone(TRUE, out)
  \/ Return

SpecJob == InitJob /\ [][NextJob]_vars

\* ------------------------------------------------- the options of a print
\* cupOptions as Object.entries iterates them
CupOptionValues ==
  { << >>,
    << << "print-quality", "5" >> >>,
    << << "print-quality", "5" >>, << "sides", "two" >> >>,
    << << "sides", "two" >>, << "print-quality", "5" >> >> }

\* every PrintOptions value: copies 0 is copies left out
AllOptions ==
  [copies : 0..MaxCopies, media : { Empty, << "4x6" >> }, grayscale : BOOLEAN,
   fitToPage : BOOLEAN, cupOptions : CupOptionValues]

\* printImage on the one printer CUPS holds, every step succeeding; only the
\* printer, the input and the options vary
InitCmd ==
  /\ cups \in {cs \in CupsStates : Len(cs) = 1 /\ cs[1].enabled /\ cs[1].uri = UsbUri}
  /\ dflt = Empty
  /\ NoCallYet
  /\ NoWatcher
  /\ NoClient

NextCmd ==
  \/ \E n \in CupsNames(cups), i \in Inputs, o \in AllOptions : CallPrintImage(n, i, o)
  \/ WriteFileDone(TRUE, FALSE)
  \/ \E fs \in FsStates : AccessDone(fs)
  \/ LpstatPDDone(TRUE)
  \/ LpstatVDone(TRUE)
  \/ \E out \in LpAcks(call.printerName) : LpDone(TRUE, out)
  \/ UnlinkDone(TRUE)
  \/ Return

SpecCmd == InitCmd /\ [][NextCmd]_vars

\* ---------------------------------------------------- client.ts: recording
printVars == << envVars, callVars, watchVars >>

\* new MediaRecorder(stream) after mediaRecorder.start(), made by press number n
NewRecorder(n) ==
  [press |-> n, state |-> "recording", stops |-> 0, onstop |-> "none", requests |-> 0]

\* the body shared by the pointerup and pointerleave handlers:
\* if (mediaRecorder && mediaRecorder.state === 'recording') mediaRecorder.stop()
StopIfRecording(rs, mr) ==
  IF mr # 0 /\ rs[mr].state = "recording"
    THEN [rs EXCEPT ![mr].state = "inactive", ![mr].stops = @ + 1,
                    ![mr].onstop = "queued"]
    ELSE rs

\* the pointer comes over the record button (no handler)
PointerEnter ==
  /\ ~ over
  /\ over' = TRUE
  /\ UNCHANGED << mediaRecorder, recorders, grants, held, presses, printVars >>

\* pointerdown on the button: the handler runs up to await getUserMedia
PointerDown ==
  /\ over /\ ~ held
  /\ presses < MaxPresses
  /\ held' = TRUE
  /\ presses' = presses + 1
  /\ grants' = Append(grants, presses + 1)
  /\ UNCHANGED << mediaRecorder, recorders, over, printVars >>

\* getUserMedia of press grants[g] settles; when granted the handler goes on:
\* a new recorder is assigned to mediaRecorder and started
GrantDone(g, ok) ==
  /\ g \in 1..Len(grants)
  /\ grants' = SubSeq(grants, 1, g - 1) \o SubSeq(grants, g + 1, Len(grants))
  /\ IF ok
       THEN /\ recorders' = Append(recorders, NewRecorder(grants[g]))
            /\ mediaRecorder' = Len(recorders) + 1
       ELSE UNCHANGED << recorders, mediaRecorder >>
  /\ UNCHANGED << held, over, presses, printVars >>

\* pointerup on the button
PointerUp ==
  /\ held /\ over
  /\ held' = FALSE
  /\ recorders' = StopIfRecording(recorders, mediaRecorder)
  /\ UNCHANGED << mediaRecorder, grants, over, presses, printVars >>

\* the button is released with the pointer elsewhere: no handler of the button
PointerUpOutside ==
  /\ held /\ ~ over
  /\ held' = FALSE
  /\ UNCHANGED << mediaRecorder, recorders, grants, over, presses, printVars >>

\* pointerleave: the pointer leaves the button, held or not
PointerLeave ==
  /\ over
  /\ over' = FALSE
  /\ recorders' = StopIfRecording(recorders, mediaRecorder)
  /\ UNCHANGED << mediaRecorder, grants, held, presses, printVars >>

\* onstop of recorder r: the transcription settles and generateAndPrint(text)
\* posts to /api/generate unless the text is empty
Transcribed(r, valid) ==
  /\ r \in 1..Len(recorders)
  /\ recorders[r].onstop = "queued"
  /\ recorders' = [recorders EXCEPT ![r].onstop = IF valid THEN "fetch" ELSE "done",
                                    ![r].requests = IF valid THEN @ + 1 ELSE @]
  /\ UNCHANGED << mediaRecorder, grants, held, over, presses, printVars >>

\* generateAndPrint: fetch('/api/generate') settles
FetchDone(r) ==
  /\ r \in 1..Len(recorders)
  /\ recorders[r].onstop = "fetch"
  /\ recorders' = [recorders EXCEPT ![r].onstop = "done"]
  /\ UNCHANGED << mediaRecorder, grants, held, over, presses, printVars >>

InitClient ==
  /\ cups = << >>
  /\ dflt = Empty
  /\ NoCallYet
  /\ NoWatcher
  /\ NoClient

NextClient ==
  \/ PointerEnter
  \/ PointerDown
  \/ \E g \in 1..MaxPresses, ok \in BOOLEAN : GrantDone(g, ok)
  \/ PointerUp
  \/ PointerUpOutside
  \/ PointerLeave
  \/ \E r \in 1..MaxPresses, valid \in BOOLEAN : Transcribed(r, valid)
  \/ \E r \in 1..MaxPresses : FetchDone(r)

SpecClient == InitClient /\ [][NextClient]_vars

\* ================================================================ claims
\* the lp commands among the commands a call has issued
LpCommands(cs) == {i \in 1..Len(cs) : cs[i][1] = "lp"}

BufferCall == call.phase = "print" /\ call.input.kind = "buffer"

\* C1 as stated: for a byte-buffer input the temporary file exists when lp is
\* issued and no longer exists when the call has finished, whatever the outcome,
\* a failure of the delete step included.
C1_TempFileGoneWhateverOutcome ==
  /\ (BufferCall /\ pc = "lp") => tempExists
  /\ (BufferCall /\ pc = "done") => ~ tempExists

\* C1 amended: for a byte-buffer input the temporary file exists when lp is
\* issued, the delete step is attempted in every outcome, and when the call has
\* finished the file exists only if the delete step itself failed.
C1_TempFileLifetime ==
  /\ (BufferCall /\ pc = "lp") => tempExists
  /\ (BufferCall /\ pc = "done") =>
       /\ call.unlink # "none"
       /\ tempExists => call.unlink = "failed"

\* C1 witness: the lp command of a buffer call failed and the file is gone
C1_Witness ==
  /\ BufferCall /\ pc = "done"
  /\ LpCommands(cmds) # {}
  /\ call.result.status = "error"
  /\ call.unlink = "ok" /\ ~ tempExists

\* the listing printImage obtained lacks the printer it was asked for
NameAbsent ==
  /\ call.phase = "print" /\ call.listed
  /\ \A i \in 1..Len(call.printers) : call.printers[i].name # call.printerName

\* C2: when the printer name is absent from the listing obtained during the
\* call, printImage fails with printer-not-found and issues no lp command.
C2_PrinterNotFound ==
  NameAbsent =>
    /\ pc \in { "unlink", "done" }
    /\ call.result = Err(<< "Failed to print", "Printer not found" >>, call.printerName)
    /\ LpCommands(cmds) = {}

\* C2 witness: other printers are listed, the requested one is not
C2_Witness ==
  /\ NameAbsent /\ pc = "done"
  /\ Len(call.printers) > 0
  /\ call.result.status = "error"

\* a printImage call on a path whose extension is outside the allow-list, after
\* validateImageFile has answered
BadExtension ==
  /\ call.phase = "print" /\ call.input.kind = "path" /\ call.fs # "none"
  /\ ToLowerCase(ExtName(call.input.path)) \notin supportedFormats

\* C3 as stated: such a call fails with unsupported-format, whether or not the
\* file exists or is readable, and issues no lp command.
C3_UnsupportedWhateverTheFile ==
  BadExtension =>
    /\ call.result.status = "error"
    /\ call.result.chain = << "Failed to print", "Unsupported file format" >>
    /\ LpCommands(cmds) = {}

\* C3 amended: such a call fails and issues no lp command; the failure is
\* unsupported-format when the file is readable, file-not-found when it does
\* not exist, and the access error when it is not readable.
C3_UnsupportedFormat ==
  BadExtension =>
    /\ call.result.status = "error"
    /\ LpCommands(cmds) = {}
    /\ call.result.chain =
         << "Failed to print",
            CASE call.fs = "readable" -> "Unsupported file format"
              [] call.fs = "ENOENT" -> "File not found"
              [] call.fs = "EACCES" -> "EACCES: permission denied" >>

\* C3 witness: a readable .txt file is refused as unsupported
C3_Witness ==
  /\ BadExtension /\ pc = "done"
  /\ call.fs = "readable"
  /\ call.result = Err(<< "Failed to print", "Unsupported file format" >>, << ".", "txt" >>)

\* the record printToUSB must pick from its listing: the default one when there
\* is one, else the first
DefaultIndexes(ps) == {i \in 1..Len(ps) : ps[i].isDefault}
Expected(ps) ==
  IF DefaultIndexes(ps) # {} THEN ps[MinOf(DefaultIndexes(ps))].name ELSE ps[1].name

\* C8: printToUSB fails with "No printers found" on an empty listing; otherwise
\* it submits to the default record when there is one, even when it is not
\* listed first, and to the first record when none is default.
C8_SubmitToFirstAvailable ==
  (call.op = "printToUSB" /\ call.selListed) =>
    IF Len(call.allPrinters) = 0
      THEN pc = "done" /\ call.result = Err(<< "No printers found" >>, Empty) /\ cmds # << >>
              /\ LpCommands(cmds) = {}
      ELSE /\ call.phase = "print"
           /\ call.printerName = Expected(call.allPrinters)
           /\ \A i \in LpCommands(cmds) :
                cmds[i] = buildPrintCommand(Expected(call.allPrinters),
                                            call.imagePath, call.options)
           /\ (pc \in { "writeFile", "access" } /\ call.snapDflt \in CupsNames(call.snapCups))
                => call.printerName = call.snapDflt

\* C8 witness: the lp command went to the default printer, listed second
C8_Witness ==
  /\ call.op = "printToUSB" /\ pc = "lp"
  /\ Len(call.allPrinters) = 2
  /\ call.allPrinters[2].isDefault /\ ~ call.allPrinters[1].isDefault
  /\ call.printerName = call.allPrinters[2].name

\* C8 witness of the failure: the listing was empty
C8_WitnessEmpty ==
  call.op = "printToUSB" /\ call.selListed /\ Len(call.allPrinters) = 0

\* C9: the printer printToUSB submits to has its USB flag set, so that nothing
\* is submitted when no USB printer is listed.
C9_SubmitsOnlyToUSB ==
  (call.op = "printToUSB" /\ LpCommands(cmds) # {}) =>
    \E i \in 1..Len(call.allPrinters) :
      /\ call.allPrinters[i].name = call.printerName
      /\ call.allPrinters[i].isUSB

\* getAllPrinters has returned its records for a report whose default line
\* names a printer of the report
DefaultNamesPrinter ==
  /\ call.op = "getAllPrinters" /\ call.listed
  /\ call.snapDflt # Empty
  /\ call.snapDflt \in CupsNames(call.snapCups)

\* C10: when the default-destination line names printer P, exactly one returned
\* record has isDefault true, and its name is P.
C10_ExactlyOneDefault ==
  DefaultNamesPrinter =>
    /\ Cardinality(DefaultIndexes(call.printers)) = 1
    /\ \A i \in DefaultIndexes(call.printers) : call.printers[i].name = call.snapDflt

\* C10 witness: the default "ab" is listed second, after "a", a substring of it
C10_Witness ==
  /\ DefaultNamesPrinter /\ pc = "done"
  /\ Len(call.printers) = 2
  /\ call.printers[1].name = << "a" >> /\ ~ call.printers[1].isDefault
  /\ call.printers[2].name = << "a", "b" >> /\ call.printers[2].isDefault

\* how often a run of check recorded event e for printer p
Count(tk, e, p) ==
  Cardinality({k \in 1..Len(tk.log) : tk.log[k].e = e /\ tk.log[k].p = p})

Logged(tk, e) == \E k \in 1..Len(tk.log) : tk.log[k].e = e

\* C4: an error raised during a run of check is passed to onError, and while
\* stop has not been called the next check is scheduled: no failing run ends
\* the timer loop.
C4_FailingTickKeepsLoop ==
  \A t \in 1..Len(ticks) :
    (ticks[t].failed /\ ~ InFlight(ticks[t])) =>
      /\ wopts.onError => Logged(ticks[t], "onError")
      /\ isRunning => Logged(ticks[t], "schedule")

\* some step of run t of check can be taken
TickStep(t) ==
  \E ok, cbThrows, errThrows \in BOOLEAN :
    \/ TickLpstatPD(t, ok, errThrows)
    \/ TickLpstatV(t, ok, errThrows)
    \/ TickCheck(t, ok, errThrows)
    \/ TickCupsenable(t, ok, errThrows)
    \/ TickCupsaccept(t, ok, cbThrows, errThrows)

\* C5: stop takes effect at the boundaries of check only.  A run that began
\* after stop issues no command, invokes no callback and schedules nothing; a
\* run in flight when stop is called goes on (what it issues after the stop
\* belongs to a run that began before it) and never schedules a further run.
C5_StopAtTickBoundaries ==
  \A t \in 1..Len(ticks) :
    /\ ~ ticks[t].born => (ticks[t].log = << >> /\ ticks[t].pc = "done")
    /\ \A k \in 1..Len(ticks[t].log) :
         ~ ticks[t].log[k].run => (ticks[t].born /\ ticks[t].log[k].e # "schedule")
    /\ (InFlight(ticks[t]) /\ ~ isRunning) => ENABLED TickStep(t)

\* C5 witness: a run in flight at the stop went on to resume a printer and to
\* call onResume, and has finished
C5_Witness ==
  \E t \in 1..Len(ticks) :
    /\ ticks[t].born /\ ticks[t].pc = "done"
    /\ \E k \in 1..Len(ticks[t].log) :
         ticks[t].log[k].e = "cupsenable" /\ ~ ticks[t].log[k].run
    /\ \E k \in 1..Len(ticks[t].log) :
         ticks[t].log[k].e = "onResume" /\ ~ ticks[t].log[k].run

\* C5 second witness: a timer set before the stop fired after it
C5_WitnessLateTick ==
  \E t \in 1..Len(ticks) : ~ ticks[t].born /\ nchecks > 1

\* C6: at most one run of check is in flight, and no timer is pending while
\* one is.
C6_TicksNeverOverlap ==
  Cardinality({t \in 1..Len(ticks) : InFlight(ticks[t])}) + timers <= 1

\* C6 witness: the second run is in the middle of a resume, no timer pending
C6_Witness ==
  /\ nchecks = 2 /\ timers = 0
  /\ \E t \in 1..Len(ticks) : ticks[t].pc = "cupsaccept"

AllowListed(p) == \E k \in 1..Len(wopts.printerNames) : wopts.printerNames[k] = p

\* no run of check has touched a printer outside the allow-list
OnlyAllowListed ==
  \A t \in 1..Len(ticks) : \A k \in 1..Len(ticks[t].log) :
    ticks[t].log[k].p # Empty => AllowListed(ticks[t].log[k].p)

\* C7 as stated, for a poller that was given an onResume callback: with a
\* non-empty allow-list, in every run of check in which an allow-listed printer
\* reports disabled there is exactly one resume call and exactly one onResume
\* callback for it, and no printer outside the allow-list is checked or resumed.
C7_OneResumeOneCallback ==
  (wopts.started /\ wopts.onResume /\ Len(wopts.printerNames) > 0) =>
    /\ OnlyAllowListed
    /\ \A t \in 1..Len(ticks) : \A p \in Names :
         (~ InFlight(ticks[t]) /\ AllowListed(p) /\ Count(ticks[t], "disabled", p) > 0) =>
           /\ Count(ticks[t], "cupsenable", p) = 1
           /\ Count(ticks[t], "onResume", p) = 1

\* C7 amended: ... exactly one resume call for it, and exactly one onResume
\* callback when that resume call succeeded and an onResume callback was given,
\* none otherwise; no printer outside the allow-list is checked or resumed.
C7_OneResumeCallbackOnSuccess ==
  (wopts.started /\ Len(wopts.printerNames) > 0) =>
    /\ OnlyAllowListed
    /\ \A t \in 1..Len(ticks) : \A p \in Names :
         (~ InFlight(ticks[t]) /\ AllowListed(p) /\ Count(ticks[t], "disabled", p) > 0) =>
           /\ Count(ticks[t], "cupsenable", p) = 1
           /\ Count(ticks[t], "resumed", p) <= 1
           /\ Count(ticks[t], "onResume", p) =
                IF wopts.onResume THEN Count(ticks[t], "resumed", p) ELSE 0

\* C7 witness: "a" is in CUPS but not allow-listed; "c" was found disabled and
\* was resumed once, with one onResume callback
C7_Witness ==
  /\ wopts.started /\ wopts.printerNames = << << "a", "b" >>, << "c" >> >>
  /\ << "a" >> \in CupsNames(cups)
  /\ \E t \in 1..Len(ticks) :
       /\ ticks[t].pc = "done"
       /\ Count(ticks[t], "disabled", << "c" >>) = 1
       /\ Count(ticks[t], "cupsenable", << "c" >>) = 1
       /\ Count(ticks[t], "onResume", << "c" >>) = 1

\* the transport locator the name/transport report gives for the printer of
\* that very name, Empty when the report has no line for it
OwnLocator(printerDevices, printerName) ==
  LET deviceLines == Split(printerDevices, NL)
      hits == {k \in 1..Len(deviceLines) :
                 /\ DeviceMatch(deviceLines[k]).matched
                 /\ DeviceMatch(deviceLines[k]).g1 = printerName}
  IN  IF hits = {} THEN Empty ELSE DeviceMatch(deviceLines[MinOf(hits)]).g2

\* C11: every record getAllPrinters returns has isUSB true exactly when the
\* printer's own transport locator in the name/transport report contains "usb"
\* in any letter case, also when one printer name is a substring of another.
\* (CUPS does not change between the second report and the return of the call.)
C11_IsUSBFromOwnLocator ==
  (call.op = "getAllPrinters" /\ call.listed /\ pc = "done") =>
    \A i \in 1..Len(call.printers) :
      call.printers[i].isUSB =
        Includes(ToLowerCase(OwnLocator(LpstatV(cups), call.printers[i].name)),
                 << "usb" >>)

\* whether CUPS state cs holds printer printerName enabled
EnabledIn(cs, printerName) ==
  \E i \in 1..Len(cs) : cs[i].name = printerName /\ cs[i].enabled

ResumeCommands(cs) == {i \in 1..Len(cs) : cs[i][1] \in { "cupsenable", "cupsaccept" }}

CheckAndResumeCall == call.op = "checkAndResumePrinter" /\ call.stdout # Empty

\* C12: checkAndResumePrinter issues the resume and accept-jobs commands only
\* when the printer is not enabled and autoEnable is true; when the printer is
\* enabled, or is not enabled with autoEnable false, it issues no command but
\* the status query, leaves the printer's state as it found it and reports
\* wasEnabled true and false respectively.
C12_ResumeOnlyWhenPausedAndAsked ==
  CheckAndResumeCall =>
    LET enabled == EnabledIn(call.snapCups, call.printerName)
    IN  /\ ResumeCommands(cmds) # {} => (~ enabled /\ call.autoEnable)
        /\ (enabled \/ ~ call.autoEnable) =>
             /\ pc = "done"
             /\ call.result.status = "ok"
             /\ cmds = << LpstatPCmd(call.printerName) >>
             /\ cups = call.snapCups
             /\ call.wasEnabled = IF enabled THEN "true" ELSE "false"
        /\ (pc = "done" /\ call.result.status = "ok" /\ ~ enabled /\ call.autoEnable) =>
             /\ cmds = << LpstatPCmd(call.printerName), CupsenableCmd(call.printerName),
                          CupsacceptCmd(call.printerName) >>
             /\ call.wasEnabled = "false"

\* C12 witness: a paused printer was resumed on request
C12_Witness ==
  /\ CheckAndResumeCall /\ pc = "done"
  /\ call.autoEnable /\ ~ EnabledIn(call.snapCups, call.printerName)
  /\ Cardinality(ResumeCommands(cmds)) = 2
  /\ EnabledIn(cups, call.printerName)
  /\ call.wasEnabled = "false"

\* C12 second witness: a paused printer was left paused, autoEnable being false
C12_WitnessLeftPaused ==
  /\ CheckAndResumeCall /\ pc = "done"
  /\ ~ call.autoEnable /\ ~ EnabledIn(cups, call.printerName)
  /\ call.wasEnabled = "false"

\* C13: enablePrinter issues the resume command and then the accept-jobs
\* command; it reports success only when both completed; a failure of either is
\* raised as one wrapped "Failed to enable printer" error, and after a failed
\* resume command the accept-jobs command is not issued.
C13_ResumeThenAccept ==
  call.op = "enablePrinter" =>
    /\ cmds \in { << CupsenableCmd(call.printerName) >>,
                  << CupsenableCmd(call.printerName), CupsacceptCmd(call.printerName) >> }
    /\ pc = "cupsenable" => Len(cmds) = 1
    /\ pc = "cupsaccept" => Len(cmds) = 2 /\ EnabledIn(cups, call.printerName)
    /\ (pc = "done" /\ call.result.status = "ok") =>
         Len(cmds) = 2 /\ EnabledIn(cups, call.printerName)
    /\ (pc = "done" /\ call.result.status # "ok") =>
         /\ call.result.status = "error"
         /\ Len(call.result.chain) = 2
         /\ call.result.chain[1] = "Failed to enable printer"
         /\ call.result.chain[2] = "Command failed: cupsenable" =>
              (Len(cmds) = 1 /\ cups = call.snapCups)
         /\ call.result.chain[2] = "Command failed: cupsaccept" => Len(cmds) = 2

\* C13 witness: the resume command failed on a paused printer
C13_Witness ==
  /\ call.op = "enablePrinter" /\ pc = "done"
  /\ call.printerName \in CupsNames(cups) /\ ~ EnabledIn(cups, call.printerName)
  /\ call.result.chain = << "Failed to enable printer", "Command failed: cupsenable" >>
  /\ Len(cmds) = 1

\* C13 second witness: both commands completed
C13_WitnessSuccess ==
  call.op = "enablePrinter" /\ pc = "done" /\ call.result.status = "ok"

\* the fixed prefix of each operation that has one
OwnPrefix(op) ==
  CASE op = "getAllPrinters" -> "Failed to get printers"
    [] op = "isPrinterEnabled" -> "Failed to check printer status"
    [] op = "enablePrinter" -> "Failed to enable printer"
    [] op = "printImage" -> "Failed to print"
    [] op = "getPrintJobStatus" -> "Failed to get job status"
    [] op = "cancelPrintJob" -> "Failed to cancel job"
    [] op = "getPrinterInfo" -> "Failed to get printer info"
    [] op = "getAvailableMediaSizes" -> "Failed to get media sizes"
    [] OTHER -> "none"

FailedToPrefixes ==
  { OwnPrefix(op) : op \in { "getAllPrinters", "isPrinterEnabled", "enablePrinter",
                             "printImage", "getPrintJobStatus", "cancelPrintJob",
                             "getPrinterInfo", "getAvailableMediaSizes" } }

Failure == pc = "done" /\ call.result.status = "error"

\* C14 as stated: every failure of an exported operation is one error whose
\* message is the operation's "Failed to <action>: " prefix followed by the
\* message of the cause (for printToUSB: some "Failed to <action>: " prefix).
C14_EveryFailurePrefixed ==
  Failure =>
    /\ Len(call.result.chain) >= 2
    /\ IF call.op = "printToUSB"
         THEN call.result.chain[1] \in FailedToPrefixes
         ELSE call.result.chain[1] = OwnPrefix(call.op)

\* C14 amended: ... of every exported operation but printToUSB; printToUSB adds
\* no prefix: it raises the bare "No printers found" on an empty listing and
\* passes on unchanged the error of getAllPrinters or of printImage.
C14_FailurePrefixedButPrintToUSB ==
  Failure =>
    IF call.op = "printToUSB"
      THEN IF ~ call.selListed
             THEN Len(call.result.chain) = 2 /\ call.result.chain[1] = "Failed to get printers"
           ELSE IF Len(call.allPrinters) = 0
             THEN call.result.chain = << "No printers found" >>
           ELSE Len(call.result.chain) >= 2 /\ call.result.chain[1] = "Failed to print"
      ELSE /\ Len(call.result.chain) >= 2
           /\ call.result.chain[1] = OwnPrefix(call.op)
           /\ call.result.chain[Len(call.result.chain)] \notin FailedToPrefixes

\* C14 witness: getAvailableMediaSizes failed on the error of getPrinterInfo
C14_Witness ==
  /\ Failure /\ call.op = "getAvailableMediaSizes"
  /\ call.result.chain = << "Failed to get media sizes", "Failed to get printer info",
                            "Command failed: lpoptions" >>

\* C14 second witness: printToUSB passed on the error of printImage
C14_WitnessPassedOn ==
  /\ Failure /\ call.op = "printToUSB"
  /\ call.result.chain = << "Failed to print", "Command failed: lp" >>

\* text holds "request id is <name>-<digits>" with the digits starting at d:
\* the words, a space, a non-empty name on the same line, a hyphen, a digit
PatternAt(text, d) ==
  /\ d \in 5..Len(text)
  /\ text[d] \in Digits /\ text[d - 1] = "-"
  /\ \E i \in 1..(d - 4) :
       /\ text[i] = "request id is" /\ text[i + 1] = SP
       /\ \A k \in (i + 2)..(d - 2) : text[k] # NL

LpAcknowledged == call.op = "printImage" /\ pc = "done" /\ call.result.status = "ok"

\* C15: when the acknowledgement of lp matches "request id is <name>-<digits>"
\* printImage returns a digit group of the pattern, whole; when it does not,
\* printImage returns the whole trimmed acknowledgement.
C15_JobIdFromAcknowledgement ==
  LpAcknowledged =>
    LET text == call.stdout
        jobId == call.result.val
    IN  IF \E d \in 1..Len(text) : PatternAt(text, d)
          THEN \E d \in 1..Len(text) :
                 /\ PatternAt(text, d)
                 /\ jobId # Empty
                 /\ d + Len(jobId) - 1 <= Len(text)
                 /\ jobId = SubSeq(text, d, d + Len(jobId) - 1)
                 /\ \A k \in 1..Len(jobId) : jobId[k] \in Digits
                 /\ d + Len(jobId) > Len(text) \/ text[d + Len(jobId)] \notin Digits
          ELSE /\ jobId = Trim(text)
               /\ Len(jobId) <= Len(text)
               /\ jobId # Empty => jobId[1] \notin { SP, NL } /\ jobId[Len(jobId)] \notin { SP, NL }

\* C15 witness: "request id is a-4\n" gave job id "4"
C15_Witness ==
  /\ LpAcknowledged
  /\ call.stdout = << "request id is", SP, "a", "-", "4", NL >>
  /\ call.result.val = << "4" >>

\* C15 second witness: " a-4 \n", which lacks the words, came back trimmed
C15_WitnessTrimmed ==
  /\ LpAcknowledged
  /\ call.stdout = << SP, "a", "-", "4", SP, NL >>
  /\ call.result.val = << "a", "-", "4" >>

DirectoryCall == call.op = "getAllPrinters" /\ pc = "done"

\* C16: getAllPrinters returns no partial result.  When either listing command
\* failed it returns no record and raises one "Failed to get printers" error;
\* records are returned only after both commands succeeded, one for every
\* printer of the first report.
C16_NoPartialResults ==
  DirectoryCall =>
    /\ call.result.status \in { "ok", "error" }
    /\ call.result.status = "error" =>
         /\ call.result.chain = << "Failed to get printers", "Command failed: lpstat" >>
         /\ ~ call.listed /\ call.printers = << >>
         /\ cmds \in { << LpstatPDCmd >>, << LpstatPDCmd, LpstatVCmd >> }
    /\ call.result.status = "ok" =>
         /\ call.listed
         /\ cmds = << LpstatPDCmd, LpstatVCmd >>
         /\ Len(call.printers) = Len(call.snapCups)
         /\ \A i \in 1..Len(call.printers) : call.printers[i].name = call.snapCups[i].name

\* C16 witness: the first report listed two printers and the second command failed
C16_Witness ==
  /\ DirectoryCall
  /\ cmds = << LpstatPDCmd, LpstatVCmd >>
  /\ Len(call.snapCups) = 2 /\ call.printerList # Empty
  /\ call.result.status = "error" /\ call.printers = << >>

\* where a part that satisfies Test stands among the parts, 0 when nowhere
PartAt(parts, Test(_)) ==
  LET hits == {k \in 1..Len(parts) : Test(parts[k])}
  IN  IF hits = {} THEN 0 ELSE MinOf(hits)

PartCount(parts, Test(_)) == Cardinality({k \in 1..Len(parts) : Test(parts[k])})

IsCopies(part) == part = << "-n" >>
IsMedia(part) == part # Empty /\ part[1] = "media="
IsGray(part) == part = << "ColorModel=Gray" >>
IsFit(part) == part = << "fit-to-page" >>

\* the places of the parts that are there, in the order the claim gives them
Places(parts, o) ==
  LET cup(m) == PartAt(parts, LAMBDA part :
                         part = << o.cupOptions[m][1], "=", o.cupOptions[m][2] >>)
  IN  << 3, PartAt(parts, IsCopies), PartAt(parts, IsMedia), PartAt(parts, IsGray),
         PartAt(parts, IsFit) >>
        \o [m \in 1..Len(o.cupOptions) |-> cup(m)]
        \o << Len(parts) >>

\* C17: the command built for a printer, a path and options lists its parts in
\* the order destination, copies (only when copies > 1), media (only when set),
\* grayscale flag (only when set), fit-to-page flag (only when set), every
\* cupOptions pair in iteration order, and last the file path.
C17_CommandPartsInOrder ==
  (call.op = "printImage" /\ LpCommands(cmds) # {}) =>
    LET o == call.options
        parts == Split(cmds[Len(cmds)], SP)
        n == Len(parts)
        places == Places(parts, o)
        there == SelectSeq(places, LAMBDA k : k # 0)
    IN  /\ parts[1] = << "lp" >> /\ parts[2] = << "-d" >>
        /\ parts[3] = Quoted(call.printerName)
        /\ parts[n] = Quoted(call.imagePath)
        /\ PartCount(parts, IsCopies) = (IF o.copies > 1 THEN 1 ELSE 0)
        /\ PartCount(parts, IsMedia) = (IF o.media # Empty THEN 1 ELSE 0)
        /\ PartCount(parts, IsGray) = (IF o.grayscale THEN 1 ELSE 0)
        /\ PartCount(parts, IsFit) = (IF o.fitToPage THEN 1 ELSE 0)
        /\ \A m \in 1..Len(o.cupOptions) : places[5 + m] # 0
        /\ n = 2 * (Len(there) - 2) + 4
        /\ \A k \in 1..(Len(there) - 1) : there[k] < there[k + 1]
        /\ o.copies > 1 => parts[places[2] + 1] = << ToString(o.copies) >>
        /\ o.media # Empty => parts[places[3]] = << "media=" >> \o o.media
        /\ \A k \in 3..(Len(places) - 1) :
             places[k] # 0 => parts[places[k] - 1] = << "-o" >>

\* C17 witness: every option set, two cupOptions pairs
C17_Witness ==
  /\ call.op = "printImage" /\ pc = "lp"
  /\ cmds[Len(cmds)] =
       << "lp", SP, "-d", SP, "\"", "a", "\"", SP, "-n", SP, "2", SP,
          "-o", SP, "media=", "4x6", SP, "-o", SP, "ColorModel=Gray", SP,
          "-o", SP, "fit-to-page", SP, "-o", SP, "sides", "=", "two", SP,
          "-o", SP, "print-quality", "=", "5", SP, "\"", "f", ".", "png", "\"" >>

\* C17 second witness: copies 1 and nothing else set gives the bare command
C17_WitnessBare ==
  /\ call.op = "printImage" /\ pc = "lp" /\ call.options.copies = 1
  /\ cmds[Len(cmds)] = << "lp", SP, "-d", SP, "\"", "c", "\"", SP, "\"", "f", ".", "png", "\"" >>

\* where printer p stands in the list of a run of check, 0 when it is not there
ListIndex(tk, p) ==
  LET hits == {i \in 1..Len(tk.list) : tk.list[i].name = p}
  IN  IF hits = {} THEN 0 ELSE MinOf(hits)

\* where printer p stands in the directory
CupsIndex(p) ==
  LET hits == {i \in 1..Len(cups) : cups[i].name = p}
  IN  IF hits = {} THEN 0 ELSE MinOf(hits)

\* the printers a run of check has looked at, in the order it did
Checked(tk) == SelectSeq(tk.log, LAMBDA ev : ev.e = "check")

\* C18: a run of check handles the printers one after another in directory
\* order; its first error ends its work: onError is invoked once (when one was
\* given) and nothing but the scheduling of the next run follows, so that no
\* later printer is checked or resumed; onResume is invoked for a printer only
\* after both of its resume commands succeeded.
C18_FirstErrorEndsTick ==
  \A t \in 1..Len(ticks) :
    LET tk == ticks[t]
        log == tk.log
        n == Len(log)
        checked == Checked(tk)
        \* the list index of the printer of every event that has one, in order
        touched == [k \in 1..Len(SelectSeq(log, LAMBDA ev : ev.p # Empty)) |->
                      ListIndex(tk, SelectSeq(log, LAMBDA ev : ev.p # Empty)[k].p)]
    IN  /\ \A i \in 1..(Len(tk.list) - 1) :
             CupsIndex(tk.list[i].name) < CupsIndex(tk.list[i + 1].name)
        /\ Len(checked) <= Len(tk.list)
        /\ \A k \in 1..Len(checked) : checked[k].p = tk.list[k].name
        /\ \A k \in 1..(Len(touched) - 1) : touched[k] <= touched[k + 1]
        /\ Count(tk, "onError", Empty) = (IF tk.failed /\ wopts.onError THEN 1 ELSE 0)
        /\ \A a \in 1..n :
             log[a].e = "onError" =>
               (a = n \/ (a = n - 1 /\ log[n].e = "schedule"))
        /\ (tk.failed /\ ~ InFlight(tk)) =>
             /\ Len(checked) = tk.idx
             /\ \A k \in 1..Len(touched) : touched[k] \in 1..tk.idx
        /\ (~ tk.failed /\ tk.born /\ tk.pc = "done") => Len(checked) = Len(tk.list)
        /\ \A k \in 1..n :
             log[k].e = "onResume" =>
               /\ k > 3
               /\ log[k - 3] = [log[k] EXCEPT !.e = "cupsenable", !.run = log[k - 3].run]
               /\ log[k - 2] = [log[k] EXCEPT !.e = "cupsaccept", !.run = log[k - 2].run]
               /\ log[k - 1] = [log[k] EXCEPT !.e = "resumed"]

\* C18 witness: of two paused printers the first could not be resumed; onError
\* was told once and the second printer was never looked at
C18_Witness ==
  \E t \in 1..Len(ticks) :
    /\ ticks[t].pc = "done" /\ ticks[t].failed
    /\ Len(ticks[t].list) = 2 /\ ticks[t].idx = 1
    /\ ~ EnabledIn(cups, ticks[t].list[2].name)
    /\ Count(ticks[t], "cupsenable", ticks[t].list[1].name) = 1
    /\ Count(ticks[t], "onResume", ticks[t].list[1].name) = 0
    /\ Count(ticks[t], "onError", Empty) = 1
    /\ Count(ticks[t], "check", ticks[t].list[2].name) = 0

\* C18 second witness: onResume threw for the first of two printers
C18_WitnessCallbackThrew ==
  \E t \in 1..Len(ticks) :
    /\ ticks[t].pc = "done" /\ ticks[t].failed
    /\ Len(ticks[t].list) = 2 /\ ticks[t].idx = 1
    /\ Count(ticks[t], "onResume", ticks[t].list[1].name) = 1
    /\ Count(ticks[t], "onError", Empty) = 1

\* C19: recording lasts from the press of the record button to its release.
\* Whatever the order of pointerdown, the microphone grant, pointerup and
\* pointerleave, once the button is released no recorder made by a press is
\* still recording, and a press leads to at most one stop and at most one
\* generate-and-print request.
C19_NoRecordingAfterRelease ==
  /\ ~ held => \A r \in 1..Len(recorders) : recorders[r].state # "recording"
  /\ \A n \in 1..presses :
       /\ Cardinality({r \in 1..Len(recorders) : recorders[r].press = n}) <= 1
       /\ \A r \in 1..Len(recorders) :
            recorders[r].press = n => (recorders[r].stops <= 1 /\ recorders[r].requests <= 1)

====
